---- MODULE Spec2Model ----
(***************************************************************************)
(* Model of the audio dataset preparation pipeline                         *)
(* (src/audio_data_processor.py, src/data_processing.py).                   *)
(*                                                                         *)
(*   Spec     the Dataset Assembler: create_dataset_splits driving the six  *)
(*            process_domain_files passes, repeated over runs of main().    *)
(*   SegSpec  the Segmenter: load_and_process_audio run step by step on one *)
(*            loaded buffer.                                                *)
(*   LiveSpec both of them under the weak fairness of a program that keeps  *)
(*            executing, for the termination properties.                    *)
(*                                                                         *)
(* Sample values are exact rationals: a buffer is [den, num] and stands for *)
(* the samples num[i] / den.  The floating point rounding of numpy is not   *)
(* modelled; comparisons with the energy floor are exact.                   *)
(***************************************************************************)
EXTENDS Integers, Sequences, FiniteSets, TLC

VARIABLES
    \* ---- AudioDataProcessor fields (__init__) ----
    target_sr,                  \* self.target_sr
    target_samples,             \* self.target_samples
    gap_samples,                \* self.gap_samples
    calibration_samples,        \* self.calibration_samples
    eval_samples,               \* self.eval_samples
    self_processed_files,       \* self.processed_files: basename -> record
    previously_processed_files, \* self.previously_processed_files
    \* ---- load_and_process_audio, run step by step (SegSpec) ----
    seg_pc,                     \* position in load_and_process_audio
    seg_loaded,                 \* what load_audio_file returned
    audio,                      \* local `audio`
    current_pos,                \* local `current_pos`
    segments,                   \* local `segments` / the returned list
    attempts,                   \* history: offsets of the windows extracted
    \* ---- main() and create_dataset_splits ----
    run,                        \* which run of main() this is
    sources_processed_files,    \* sources["processed_files"], the ledger
    files,                      \* speech_files, music_files, env_files
    dataset_splits,             \* local `dataset_splits`
    pass,                       \* which of the six passes is running
    pc,                         \* position in main / process_domain_files
    \* ---- process_domain_files locals ----
    processed_files,            \* local `processed_files`
    processed_count,            \* local `processed_count`
    file_index,                 \* position of the for loop in `files`
    processed_filenames_for_file,
    file_segments,              \* local `segments`
    segment_index,              \* `i` of enumerate(segments)
    \* ---- the environment ----
    disk,                       \* output path -> the wav file stored there
    out_dirs,                   \* output directories that exist
    now,                        \* the clock read by datetime.now()
    write_errors,               \* how many calls of sf.write have raised
    \* ---- history ----
    loads,                      \* calls of load_and_process_audio
    writes                      \* calls of sf.write that returned

segVars == <<seg_pc, seg_loaded, audio, current_pos, segments, attempts>>
cfgVars == <<target_sr, target_samples, gap_samples>>
quotaVars == <<calibration_samples, eval_samples>>
runVars == <<run, sources_processed_files, files, previously_processed_files>>
localVars == <<processed_files, processed_count, file_index,
               processed_filenames_for_file, file_segments, segment_index>>
envVars == <<disk, out_dirs, now, write_errors>>
histVars == <<loads, writes>>
pipeVars == <<quotaVars, runVars, self_processed_files, dataset_splits, pass, pc,
              localVars, envVars, histVars>>
vars == <<cfgVars, segVars, pipeVars>>

(***************************************************************************)
(* Bounds of the pipeline's inputs.                                        *)
(***************************************************************************)
MaxFiles == 3    \* candidate files of one run, over the three domains
MaxQuota == 2    \* largest calibration_samples / eval_samples
MaxRuns == 2     \* runs of main() on the same ledger and output root
MaxWriteErrors == 1  \* calls of sf.write that raise, over all runs

(***************************************************************************)
(* Bounds of the Segmenter's inputs.                                       *)
(***************************************************************************)
MaxLen == 4      \* longest buffer, in samples
MaxSr == 2       \* largest target_sr
MaxDur2 == 3     \* longest target_duration, in half seconds
MaxGap2 == 2     \* longest gap_duration, in half seconds

\* Raw sample values, in units of 1/200 (see Decoded): 4 is 0.02, 1 is 0.005.
Amps == {-4, 0, 1, 4}

\* The energy floor 0.01 = EnergyFloorNum / EnergyFloorDen.
EnergyFloorNum == 1
EnergyFloorDen == 100

\* A buffer: the samples num[i] / den.  NoBuffer stands for an unset local.
NoBuffer == [den |-> 1, num |-> <<>>]

(***************************************************************************)
(* Sequences of integers.                                                  *)
(***************************************************************************)
RECURSIVE SeqSum(_)
SeqSum(s) == IF s = <<>> THEN 0 ELSE Head(s) + SeqSum(Tail(s))

RECURSIVE SeqSumSq(_)
SeqSumSq(s) == IF s = <<>> THEN 0 ELSE Head(s) * Head(s) + SeqSumSq(Tail(s))

Abs(x) == IF x < 0 THEN -x ELSE x

RECURSIVE SeqMaxAbs(_)
SeqMaxAbs(s) ==
    IF s = <<>> THEN 0
    ELSE LET m == SeqMaxAbs(Tail(s))
         IN  IF Abs(Head(s)) > m THEN Abs(Head(s)) ELSE m

SeqsUpTo(S, n) == UNION {[1..k -> S] : k \in 0..n}

(***************************************************************************)
(* __init__: int(target_sr * duration), the duration given in half seconds.*)
(***************************************************************************)
IntOfProduct(sr, dur2) == (sr * dur2) \div 2

\* len(audio)
BufLen(a) == Len(a.num)

\* audio[lo : hi] for 0 <= lo <= hi <= len(audio)
Slice(a, lo, hi) == [den |-> a.den, num |-> SubSeq(a.num, lo + 1, hi)]

(***************************************************************************)
(* energy = np.sqrt(np.mean(x**2)); energy >= 0.01.  The mean of an empty   *)
(* array is nan and nan >= 0.01 is False.  For a non-empty array            *)
(*   sqrt(sum(num^2) / (n * den^2)) >= p/q  <=>  q^2 * sum(num^2) >= p^2 * n * den^2 *)
(***************************************************************************)
EnergyOk(a) ==
    /\ BufLen(a) > 0
    /\ EnergyFloorDen * EnergyFloorDen * SeqSumSq(a.num)
         >= EnergyFloorNum * EnergyFloorNum * BufLen(a) * a.den * a.den

(***************************************************************************)
(* librosa.util.normalize(audio): divide by the peak magnitude, a buffer    *)
(* whose peak is zero is left as it is.  (num/den) / (M/den) = num / M.     *)
(***************************************************************************)
Normalize(a) ==
    LET m == SeqMaxAbs(a.num)
    IN  IF m = 0 THEN a ELSE [den |-> m, num |-> a.num]

(***************************************************************************)
(* audio - np.mean(audio):  num[i]/den - S/(n*den) = (n*num[i] - S)/(n*den) *)
(***************************************************************************)
RemoveDC(a) ==
    LET n == BufLen(a)
        s == SeqSum(a.num)
    IN  [den |-> n * a.den, num |-> [i \in 1..n |-> n * a.num[i] - s]]

Preprocess(a) == RemoveDC(Normalize(a))

\* Line 90: len(audio) < self.target_samples
IsShortClip(a, T) == BufLen(a) < T

\* Line 94: the short clip is returned as loaded.
ShortClipPreprocessed(a) == Preprocess(a)

ShortClip(a) == a

\* Line 106: current_pos + self.target_samples <= len(audio)
WindowFits(pos, T, L) == pos + T <= L

\* Line 108: audio[current_pos : current_pos + self.target_samples]
Window(a, pos, T) == Slice(a, pos, pos + T)

\* Line 118: current_pos += self.target_samples + self.gap_samples
NextPosNoGap(pos, T, G) == pos + T

NextPosStays(pos, T, G) == pos

NextPos(pos, T, G) == pos + T + G

\* The (segment, sr) tuple appended to the result.
SegmentTuple(data, sr) == [data |-> data, sr |-> sr]

(***************************************************************************)
(* The while loop of lines 103-120 as a function of the preprocessed       *)
(* buffer: the kept windows from offset pos on.                             *)
(***************************************************************************)
RECURSIVE WindowsFrom(_, _, _, _, _)
WindowsFrom(a, pos, T, G, sr) ==
    IF WindowFits(pos, T, BufLen(a))
    THEN (IF EnergyOk(Window(a, pos, T))
          THEN <<SegmentTuple(Window(a, pos, T), sr)>> ELSE <<>>)
         \o WindowsFrom(a, NextPos(pos, T, G), T, G, sr)
    ELSE <<>>

\* The offsets the loop visits in a buffer of length L.
RECURSIVE WindowOffsets(_, _, _, _)
WindowOffsets(pos, L, T, G) ==
    IF WindowFits(pos, T, L)
    THEN <<pos>> \o WindowOffsets(NextPos(pos, T, G), L, T, G)
    ELSE <<>>

(***************************************************************************)
(* load_and_process_audio as a function of what load_audio_file returned   *)
(* (an exception of the loader is the caller's case, see LoadRaises).      *)
(***************************************************************************)
load_and_process_audio(loaded, T, G) ==
    IF loaded.none THEN <<>>
    ELSE IF IsShortClip(loaded.audio, T)
         THEN IF EnergyOk(loaded.audio)
              THEN <<SegmentTuple(ShortClip(loaded.audio), loaded.sr)>>
              ELSE <<>>
         ELSE CHOOSE r \in {WindowsFrom(a, 0, T, G, loaded.sr) :
                                a \in {Preprocess(loaded.audio)}} : TRUE

(***************************************************************************)
(* load_audio_file's results: (None, 0) or (samples, target_sr).           *)
(***************************************************************************)
NoAudio == [none |-> TRUE, audio |-> NoBuffer, sr |-> 0]
Decoded(nums, sr) ==
    [none |-> FALSE, audio |-> [den |-> 200, num |-> nums], sr |-> sr]

(***************************************************************************)
(* Source files.  A path is [dir, name, ext]; the file behind it is either *)
(* undecodable, a video without an audio stream, or holds samples.          *)
(***************************************************************************)
Domains == <<"speech", "music", "environmental">>
DomainSet == {Domains[i] : i \in 1..Len(Domains)}

SourceFile(dir, name, ext) == [dir |-> dir, name |-> name, ext |-> ext]

FilesIn(domain) ==
    CASE domain = "speech" ->
           {SourceFile("speech", "a", "wav"), SourceFile("speech", "x", "flac")}
      [] domain = "music" ->
           {SourceFile("music", "a", "wav"), SourceFile("music", "b", "wav"),
            SourceFile("music", "c", "mp4")}
      [] domain = "environmental" ->
           {SourceFile("environmental", "v", "MP4"),
            SourceFile("environmental", "l", "wav")}

\* What is stored in each file: kind "samples", "no_audio_stream" or "corrupt".
FileContent(f) ==
    CASE f = SourceFile("speech", "a", "wav") ->
           [kind |-> "samples", num |-> <<4>>]
      [] f = SourceFile("speech", "x", "flac") ->
           [kind |-> "corrupt", num |-> <<>>]
      [] f = SourceFile("music", "a", "wav") ->
           [kind |-> "samples", num |-> <<4, -4>>]
      [] f = SourceFile("music", "b", "wav") ->
           [kind |-> "samples", num |-> <<-4>>]
      [] f = SourceFile("music", "c", "mp4") ->
           [kind |-> "samples", num |-> <<4, -4, 4, -4>>]
      [] f = SourceFile("environmental", "v", "MP4") ->
           [kind |-> "no_audio_stream", num |-> <<>>]
      [] f = SourceFile("environmental", "l", "wav") ->
           [kind |-> "samples", num |-> <<4, -4, 0, 4, -4>>]

\* os.path.basename(file_path)
Basename(f) == <<f.name, f.ext>>

\* Path(file_path).suffix.lower()
Lower(ext) == IF ext = "MP4" THEN "mp4" ELSE ext

(***************************************************************************)
(* load_audio_file: the result, or raised = TRUE when it re-raises.        *)
(***************************************************************************)
Raised == [raised |-> TRUE, result |-> NoAudio]
Returned(r) == [raised |-> FALSE, result |-> r]

\* Variants used to test the claims: the loader swallowing a decode error,
\* and the loader without the check of line 52.
load_audio_file_swallows(f, sr) ==
    LET c == FileContent(f)
    IN  IF c.kind = "samples" THEN Returned(Decoded(c.num, sr)) ELSE Returned(NoAudio)

load_audio_file_unchecked(f, sr) ==
    LET c == FileContent(f)
    IN  IF c.kind = "samples" THEN Returned(Decoded(c.num, sr)) ELSE Raised

load_audio_file(f, sr) ==
    LET c == FileContent(f)
    IN  IF Lower(f.ext) = "mp4"
        THEN CASE c.kind = "no_audio_stream" -> Returned(NoAudio)
               [] c.kind = "samples" -> Returned(Decoded(c.num, sr))
               [] OTHER -> Raised
        ELSE CASE c.kind = "samples" -> Returned(Decoded(c.num, sr))
               [] OTHER -> Raised

(***************************************************************************)
(* Output names: f"{domain}_{len(processed_files):04d}.wav" under          *)
(* Path(output_dir) / set_type / domain.                                   *)
(***************************************************************************)
RECURSIVE Digits(_)
Digits(k) == IF k < 10 THEN <<k>> ELSE Append(Digits(k \div 10), k % 10)

Format04d(k) ==
    LET ds == Digits(k)
    IN  IF Len(ds) >= 4 THEN ds ELSE [i \in 1..(4 - Len(ds)) |-> 0] \o ds

ProcessedFilenameOfSegment(domain, count, i) ==
    [domain |-> domain, index |-> Format04d(i), ext |-> "wav"]

ProcessedFilename(domain, count, i) ==
    [domain |-> domain, index |-> Format04d(count), ext |-> "wav"]

OutPath(set_type, domain) == <<set_type, domain>>

OutputFile(set_type, domain, filename) ==
    [dir |-> OutPath(set_type, domain), file |-> filename]

\* f"{domain}_{set_type}"
SplitKeyNoDomain(d, st) == <<"", st>>

SplitKey(d, st) == <<d, st>>

(***************************************************************************)
(* create_dataset_splits: the calibration loop, then the evaluation loop,  *)
(* each over speech, music, environmental.                                  *)
(***************************************************************************)
SetTypes == <<"calibration", "evaluation">>

\* Variant used to test the claims: both splits of a domain before the next
\* domain.
PassOrderByDomain ==
    [k \in 1..(Len(SetTypes) * Len(Domains)) |->
        [set_type |-> SetTypes[((k - 1) % Len(SetTypes)) + 1],
         domain |-> Domains[((k - 1) \div Len(SetTypes)) + 1]]]

PassOrder ==
    [k \in 1..(Len(SetTypes) * Len(Domains)) |->
        [set_type |-> SetTypes[((k - 1) \div Len(Domains)) + 1],
         domain |-> Domains[((k - 1) % Len(Domains)) + 1]]]

NumPasses == Len(PassOrder)

\* Lines 132-134
TargetCountSwapped(set_type, cal, ev) ==
    IF set_type = "calibration" THEN ev ELSE cal

TargetCount(set_type, cal, ev) ==
    IF set_type = "calibration" THEN cal ELSE ev

\* Line 154: len(processed_files) >= target_count, before a file is loaded
QuotaNeverMetBeforeFile(pf, target) == FALSE

QuotaExceededBeforeFile(pf, target) == Len(pf) > target

QuotaMetBeforeFile(pf, target) == Len(pf) >= target

\* Line 164: len(processed_files) >= target_count, before a segment is written
QuotaMetOffByOne(pf, target) == Len(pf) > target

QuotaMet(pf, target) == Len(pf) >= target

\* Line 157: filename in self.processed_files
HasRecordNever(filename, records) == FALSE

HasRecord(filename, records) == filename \in DOMAIN records

\* Lines 174-178
FileRecordWithoutNames(f, time, names) ==
    [full_path |-> f, processed_datetime |-> time, processed_filenames |-> <<>>]

FileRecord(f, time, names) ==
    [full_path |-> f, processed_datetime |-> time, processed_filenames |-> names]

EmptyMap == [x \in {} |-> x]

(***************************************************************************)
(* process_domain_files(files, output_dir, domain, set_type)               *)
(***************************************************************************)
set_type == PassOrder[pass].set_type
domain == PassOrder[pass].domain
target_count == TargetCount(set_type, calibration_samples, eval_samples)
file_path == files[domain][file_index]
filename == Basename(file_path)
InLoop == pc = "for" /\ file_index <= Len(files[domain])

\* Lines 130-141 for pass p: the locals, the output directory, the start of
\* the loop over the files.
EnterPass(p) ==
    /\ processed_files' = <<>>
    /\ processed_count' = 0
    /\ out_dirs' = out_dirs \cup {OutPath(PassOrder[p].set_type, PassOrder[p].domain)}
    /\ file_index' = 1
    /\ processed_filenames_for_file' = <<>>
    /\ file_segments' = <<>>
    /\ segment_index' = 0
    /\ pc' = "for"

\* The first call of a run (line 207, speech).
StartPass ==
    /\ pc = "call"
    /\ EnterPass(pass)
    /\ UNCHANGED <<cfgVars, segVars, quotaVars, runVars, self_processed_files,
                   dataset_splits, pass, disk, now, write_errors, histVars>>

(***************************************************************************)
(* Line 185 returns {f"{domain}_{set_type}": processed_files}; lines 210   *)
(* and 224 of create_dataset_splits merge it into dataset_splits and call  *)
(* process_domain_files for the next pass; after the last pass line 226    *)
(* returns to main.  names is processed_filenames_for_file at the return.   *)
(***************************************************************************)
ReturnPass(names) ==
    /\ dataset_splits' =
           (SplitKey(domain, set_type) :> processed_files) @@ dataset_splits
    /\ IF pass < NumPasses
       THEN /\ pass' = pass + 1
            /\ EnterPass(pass + 1)
       ELSE /\ pass' = pass
            /\ pc' = "save"
            /\ processed_filenames_for_file' = names
            /\ UNCHANGED <<processed_files, processed_count, out_dirs, file_index,
                           file_segments, segment_index>>

\* Lines 149-150: continue, before anything else is touched.
SkipPreviouslyProcessed ==
    /\ InLoop
    /\ filename \in previously_processed_files
    /\ file_index' = file_index + 1
    /\ UNCHANGED <<cfgVars, segVars, quotaVars, runVars, self_processed_files,
                   dataset_splits, pass, pc, processed_files, processed_count,
                   processed_filenames_for_file, file_segments, segment_index,
                   envVars, histVars>>

\* Lines 152-155: break out of the loop over the files, and return.
QuotaBreak ==
    /\ InLoop
    /\ filename \notin previously_processed_files
    /\ QuotaMetBeforeFile(processed_files, target_count)
    /\ ReturnPass(<<>>)
    /\ UNCHANGED <<cfgVars, segVars, quotaVars, runVars, self_processed_files,
                   disk, now, write_errors, histVars>>

\* Variant used to test the claims: the skip refreshing the record's timestamp.
SkipRecordedRestamps ==
    /\ InLoop
    /\ filename \notin previously_processed_files
    /\ ~QuotaMetBeforeFile(processed_files, target_count)
    /\ HasRecord(filename, self_processed_files)
    /\ self_processed_files' =
           [self_processed_files EXCEPT ![filename].processed_datetime = now + 1]
    /\ processed_filenames_for_file' = <<>>
    /\ file_index' = file_index + 1
    /\ UNCHANGED <<cfgVars, segVars, quotaVars, runVars,
                   dataset_splits, pass, pc, processed_files, processed_count,
                   file_segments, segment_index, envVars, histVars>>

\* Lines 157-158: continue.
SkipRecorded ==
    /\ InLoop
    /\ filename \notin previously_processed_files
    /\ ~QuotaMetBeforeFile(processed_files, target_count)
    /\ HasRecord(filename, self_processed_files)
    /\ processed_filenames_for_file' = <<>>
    /\ file_index' = file_index + 1
    /\ UNCHANGED <<cfgVars, segVars, quotaVars, runVars, self_processed_files,
                   dataset_splits, pass, pc, processed_files, processed_count,
                   file_segments, segment_index, envVars, histVars>>

Reaches(f) ==
    /\ InLoop
    /\ f = file_path
    /\ filename \notin previously_processed_files
    /\ ~QuotaMetBeforeFile(processed_files, target_count)
    /\ ~HasRecord(filename, self_processed_files)

LoadEvent == [run |-> run, pass |-> pass, file |-> file_path, time |-> now]

\* Line 160 raising (lines 65-67, 122-124), caught at lines 179-183.
LoadRaises ==
    /\ Reaches(file_path)
    /\ load_audio_file(file_path, target_sr).raised
    /\ loads' = Append(loads, LoadEvent)
    /\ processed_filenames_for_file' = <<>>
    /\ processed_count' = processed_count + 1
    /\ file_index' = file_index + 1
    /\ UNCHANGED <<cfgVars, segVars, quotaVars, runVars, self_processed_files,
                   dataset_splits, pass, pc, processed_files, file_segments,
                   segment_index, envVars, writes>>

\* Line 160 returning the list of segments; line 163 starts the inner loop.
LoadSegments ==
    /\ Reaches(file_path)
    /\ ~load_audio_file(file_path, target_sr).raised
    /\ loads' = Append(loads, LoadEvent)
    /\ processed_filenames_for_file' = <<>>
    /\ \E loaded \in {load_audio_file(file_path, target_sr).result} :
          file_segments' = load_and_process_audio(loaded, target_samples, gap_samples)
    /\ segment_index' = 0
    /\ pc' = "segments"
    /\ UNCHANGED <<cfgVars, segVars, quotaVars, runVars, self_processed_files,
                   dataset_splits, pass, processed_files, processed_count,
                   file_index, envVars, writes>>

MoreSegments ==
    /\ pc = "segments"
    /\ segment_index < Len(file_segments)
    /\ ~QuotaMet(processed_files, target_count)

processed_filename ==
    ProcessedFilename(domain, Len(processed_files), segment_index)
output_file == OutputFile(set_type, domain, processed_filename)

WavFile ==
    [segment |-> file_segments[segment_index + 1], source |-> file_path,
     run |-> run]

WriteEvent ==
    [run |-> run, pass |-> pass, path |-> output_file, source |-> file_path]

\* Lines 167-172 with sf.write returning.
WriteSegment ==
    /\ MoreSegments
    /\ processed_filenames_for_file' =
           Append(processed_filenames_for_file, processed_filename)
    /\ disk' = (output_file :> WavFile) @@ disk
    /\ writes' = Append(writes, WriteEvent)
    /\ processed_files' = Append(processed_files, output_file)
    /\ segment_index' = segment_index + 1
    /\ UNCHANGED <<cfgVars, segVars, quotaVars, runVars, self_processed_files,
                   dataset_splits, pass, pc, processed_count, file_index,
                   file_segments, out_dirs, now, write_errors, loads>>

\* Lines 167-171 with sf.write raising, caught at lines 179-183.  disk holds
\* the files sf.write has finished; what a failed call leaves at output_file
\* is not part of the model.
WriteRaises ==
    /\ MoreSegments
    /\ write_errors < MaxWriteErrors
    /\ write_errors' = write_errors + 1
    /\ processed_filenames_for_file' =
           Append(processed_filenames_for_file, processed_filename)
    /\ processed_count' = processed_count + 1
    /\ file_index' = file_index + 1
    /\ pc' = "for"
    /\ UNCHANGED <<cfgVars, segVars, quotaVars, runVars, self_processed_files,
                   dataset_splits, pass, processed_files, file_segments,
                   segment_index, disk, out_dirs, now, histVars>>

\* Lines 163-165 ending the inner loop, then lines 174-178 and 182-183.
RecordFile ==
    /\ pc = "segments"
    /\ ~MoreSegments
    /\ self_processed_files' =
           (filename :> FileRecord(file_path, now, processed_filenames_for_file))
               @@ self_processed_files
    /\ now' = now + 1
    /\ processed_count' = processed_count + 1
    /\ file_index' = file_index + 1
    /\ pc' = "for"
    /\ UNCHANGED <<cfgVars, segVars, quotaVars, runVars, dataset_splits, pass,
                   processed_files, processed_filenames_for_file, file_segments,
                   segment_index, disk, out_dirs, write_errors, histVars>>

\* The for loop of line 142 running out of files, and the return.
EndOfFiles ==
    /\ pc = "for"
    /\ file_index > Len(files[domain])
    /\ ReturnPass(processed_filenames_for_file)
    /\ UNCHANGED <<cfgVars, segVars, quotaVars, runVars, self_processed_files,
                   disk, now, write_errors, histVars>>

(***************************************************************************)
(* main(), src/data_processing.py.  Lines 92-94 merge the run's records    *)
(* into the ledger.                                                         *)
(***************************************************************************)
SaveLedger ==
    /\ pc = "save"
    /\ sources_processed_files' = self_processed_files @@ sources_processed_files
    /\ pc' = "exit"
    /\ UNCHANGED <<cfgVars, segVars, quotaVars, run, files,
                   previously_processed_files, self_processed_files,
                   dataset_splits, pass, localVars, envVars, histVars>>

\* Lines 42, 51, 60: `f not in sources["processed_files"]` compares the whole
\* path with the ledger's keys, which are basenames.
PathIsKey(f, key) == f.dir = "" /\ Basename(f) = key

NotInLedger(fs, ledger) ==
    SelectSeq(fs, LAMBDA f : \A key \in DOMAIN ledger : ~PathIsKey(f, key))

FileListsOf(sp, mu, en) == [speech |-> sp, music |-> mu, environmental |-> en]

\* The next run of main() on the same directories: lines 35-81.
NextRun ==
    /\ pc = "exit"
    /\ run < MaxRuns
    /\ run' = run + 1
    /\ files' = FileListsOf(
           NotInLedger(files["speech"], sources_processed_files),
           NotInLedger(files["music"], sources_processed_files),
           NotInLedger(files["environmental"], sources_processed_files))
    /\ previously_processed_files' = DOMAIN sources_processed_files
    /\ self_processed_files' = EmptyMap
    /\ dataset_splits' = EmptyMap
    /\ pass' = 1
    /\ pc' = "call"
    /\ UNCHANGED <<cfgVars, segVars, quotaVars, sources_processed_files,
                   localVars, envVars, histVars>>

\* The file lists a run can be given: at most MaxFiles candidates in all.
FileLists ==
    UNION {UNION {{FileListsOf(sp, mu, en) :
                      en \in SeqsUpTo(FilesIn("environmental"),
                                      MaxFiles - Len(sp) - Len(mu))} :
                  mu \in SeqsUpTo(FilesIn("music"), MaxFiles - Len(sp))} :
           sp \in SeqsUpTo(FilesIn("speech"), MaxFiles)}

(***************************************************************************)
(* SegSpec: load_and_process_audio step by step.                           *)
(***************************************************************************)
SegReturnNoAudio ==
    /\ seg_pc = "load"
    /\ seg_loaded.none
    /\ segments' = <<>>
    /\ seg_pc' = "done"
    /\ UNCHANGED <<seg_loaded, audio, current_pos, attempts, cfgVars, pipeVars>>

SegShortKeep ==
    /\ seg_pc = "load"
    /\ ~seg_loaded.none
    /\ IsShortClip(seg_loaded.audio, target_samples)
    /\ EnergyOk(seg_loaded.audio)
    /\ audio' = seg_loaded.audio
    /\ segments' = <<SegmentTuple(ShortClip(seg_loaded.audio), seg_loaded.sr)>>
    /\ seg_pc' = "done"
    /\ UNCHANGED <<seg_loaded, current_pos, attempts, cfgVars, pipeVars>>

SegShortDiscard ==
    /\ seg_pc = "load"
    /\ ~seg_loaded.none
    /\ IsShortClip(seg_loaded.audio, target_samples)
    /\ ~EnergyOk(seg_loaded.audio)
    /\ audio' = seg_loaded.audio
    /\ segments' = <<>>
    /\ seg_pc' = "done"
    /\ UNCHANGED <<seg_loaded, current_pos, attempts, cfgVars, pipeVars>>

SegPreprocess ==
    /\ seg_pc = "load"
    /\ ~seg_loaded.none
    /\ ~IsShortClip(seg_loaded.audio, target_samples)
    /\ audio' = Preprocess(seg_loaded.audio)
    /\ segments' = <<>>
    /\ current_pos' = 0
    /\ seg_pc' = "loop"
    /\ UNCHANGED <<seg_loaded, attempts, cfgVars, pipeVars>>

SegWindowKeep ==
    /\ seg_pc = "loop"
    /\ WindowFits(current_pos, target_samples, BufLen(audio))
    /\ EnergyOk(Window(audio, current_pos, target_samples))
    /\ segments' = Append(segments,
           SegmentTuple(Window(audio, current_pos, target_samples), seg_loaded.sr))
    /\ attempts' = Append(attempts, current_pos)
    /\ current_pos' = NextPos(current_pos, target_samples, gap_samples)
    /\ UNCHANGED <<seg_pc, seg_loaded, audio, cfgVars, pipeVars>>

SegWindowReject ==
    /\ seg_pc = "loop"
    /\ WindowFits(current_pos, target_samples, BufLen(audio))
    /\ ~EnergyOk(Window(audio, current_pos, target_samples))
    /\ attempts' = Append(attempts, current_pos)
    /\ current_pos' = NextPos(current_pos, target_samples, gap_samples)
    /\ UNCHANGED <<seg_pc, seg_loaded, audio, segments, cfgVars, pipeVars>>

SegReturn ==
    /\ seg_pc = "loop"
    /\ ~WindowFits(current_pos, target_samples, BufLen(audio))
    /\ seg_pc' = "done"
    /\ UNCHANGED <<seg_loaded, audio, current_pos, segments, attempts, cfgVars, pipeVars>>

SegIdle ==
    /\ seg_pc = "idle"
    /\ seg_loaded = NoAudio
    /\ audio = NoBuffer
    /\ current_pos = 0
    /\ segments = <<>>
    /\ attempts = <<>>

(***************************************************************************)
(* The first run: an empty ledger, the processor as __init__ leaves it,    *)
(* create_dataset_splits about to make its first call.                      *)
(***************************************************************************)
Init ==
    /\ target_sr = 2
    /\ target_samples = IntOfProduct(target_sr, 2)
    /\ gap_samples = IntOfProduct(target_sr, 1)
    /\ calibration_samples \in 1..MaxQuota
    /\ eval_samples \in 1..MaxQuota
    /\ files \in FileLists
    /\ run = 1
    /\ sources_processed_files = EmptyMap
    /\ previously_processed_files = DOMAIN sources_processed_files
    /\ self_processed_files = EmptyMap
    /\ dataset_splits = EmptyMap
    /\ pass = 1
    /\ pc = "call"
    /\ processed_files = <<>>
    /\ processed_count = 0
    /\ file_index = 1
    /\ processed_filenames_for_file = <<>>
    /\ file_segments = <<>>
    /\ segment_index = 0
    /\ disk = EmptyMap
    /\ out_dirs = {}
    /\ now = 0
    /\ write_errors = 0
    /\ loads = <<>>
    /\ writes = <<>>
    /\ SegIdle

Next ==
    \/ StartPass
    \/ SkipPreviouslyProcessed
    \/ QuotaBreak
    \/ SkipRecorded
    \/ LoadRaises
    \/ LoadSegments
    \/ WriteSegment
    \/ WriteRaises
    \/ RecordFile
    \/ EndOfFiles
    \/ SaveLedger
    \/ NextRun

Spec == Init /\ [][Next]_vars

(***************************************************************************)
(* SegSpec: one call of load_and_process_audio on each configuration and   *)
(* each loaded buffer within the bounds; the pipeline stands still.         *)
(***************************************************************************)
PipelineIdle ==
    /\ calibration_samples = 0
    /\ eval_samples = 0
    /\ files = FileListsOf(<<>>, <<>>, <<>>)
    /\ run = 1
    /\ sources_processed_files = EmptyMap
    /\ previously_processed_files = {}
    /\ self_processed_files = EmptyMap
    /\ dataset_splits = EmptyMap
    /\ pass = 1
    /\ pc = "segmenter"
    /\ processed_files = <<>>
    /\ processed_count = 0
    /\ file_index = 1
    /\ processed_filenames_for_file = <<>>
    /\ file_segments = <<>>
    /\ segment_index = 0
    /\ disk = EmptyMap
    /\ out_dirs = {}
    /\ now = 0
    /\ write_errors = 0
    /\ loads = <<>>
    /\ writes = <<>>

SegInit ==
    /\ target_sr \in 1..MaxSr
    /\ \E dur2 \in 2..MaxDur2 : target_samples = IntOfProduct(target_sr, dur2)
    /\ \E gap2 \in 0..MaxGap2 : gap_samples = IntOfProduct(target_sr, gap2)
    /\ seg_loaded \in {NoAudio} \cup
                      {Decoded(nums, target_sr) : nums \in SeqsUpTo(Amps, MaxLen)}
    /\ seg_pc = "load"
    /\ audio = NoBuffer
    /\ current_pos = 0
    /\ segments = <<>>
    /\ attempts = <<>>
    /\ PipelineIdle

SegNext ==
    \/ SegReturnNoAudio
    \/ SegShortKeep
    \/ SegShortDiscard
    \/ SegPreprocess
    \/ SegWindowKeep
    \/ SegWindowReject
    \/ SegReturn

SegSpec == SegInit /\ [][SegNext]_vars

(***************************************************************************)
(* LiveSpec: the runs of main() and the calls of load_and_process_audio    *)
(* under the scheduling of the program: it is single-threaded and           *)
(* synchronous, so a run that can take a step takes it, and so does a call  *)
(* of the Segmenter.  Starting another run of main() is the operator's      *)
(* choice and is under no fairness condition.                                *)
(***************************************************************************)
LiveInit == Init \/ SegInit

LiveNext == Next \/ SegNext

StepOfRun == Next /\ run' = run

LiveSpec ==
    /\ LiveInit
    /\ [][LiveNext]_vars
    /\ WF_vars(StepOfRun)
    /\ WF_vars(SegNext)

(***************************************************************************)
(* Vocabulary of the properties, stated without the operators above.        *)
(***************************************************************************)
QuotaOf(st) == IF st = "calibration" THEN calibration_samples ELSE eval_samples

IsEvaluation(p) == PassOrder[p].set_type = "evaluation"

InPass == pc \in {"for", "segments"}

\* k as four decimal digits, for k < 10000
FourDigits(k) == <<(k \div 1000) % 10, (k \div 100) % 10, (k \div 10) % 10, k % 10>>

\* '{output_root}/{split}/{domain}/{domain}_{k:04d}.wav'
ExpectedOutput(st, d, k) ==
    [dir |-> <<st, d>>, file |-> [domain |-> d, index |-> FourDigits(k), ext |-> "wav"]]

Paths(ws) == [k \in 1..Len(ws) |-> ws[k].path]

\* The sf.write calls of pass p of run r that returned, in order.
WritesOf(r, p) == SelectSeq(writes, LAMBDA w : w.run = r /\ w.pass = p)

LoadsOf(r, p) == SelectSeq(loads, LAMBDA e : e.run = r /\ e.pass = p)

LastOf(seq) == seq[Len(seq)]

IsUndecodable(f) == FileContent(f).kind = "corrupt"

IsVideoWithoutAudio(f) ==
    FileContent(f).kind = "no_audio_stream" /\ f.ext \in {"mp4", "MP4"}

\* sqrt(mean(x^2)) >= 0.01 for samples x[i] = num[i] / den
RmsAtLeastFloor(a) ==
    /\ Len(a.num) > 0
    /\ 10000 * SeqSumSq(a.num) >= Len(a.num) * a.den * a.den

RECURSIVE IsSubsequence(_, _)
IsSubsequence(s, t) ==
    IF s = <<>> THEN TRUE
    ELSE IF t = <<>> THEN FALSE
    ELSE IF Head(s) = Head(t) THEN IsSubsequence(Tail(s), Tail(t))
    ELSE IsSubsequence(s, Tail(t))

\* The step machine of SegSpec and the function the pipeline uses agree.
SegmenterAgrees ==
    seg_pc = "done" =>
        segments = load_and_process_audio(seg_loaded, target_samples, gap_samples)

(***************************************************************************)
(* C1.  Quota invariant: in every state of every pass the number of output *)
(* files written for the (domain, split) of the pass is at most the quota  *)
(* of the split (calibration_samples for "calibration", eval_samples        *)
(* otherwise), also when one file yields more segments than the quota has   *)
(* room for.                                                                *)
(***************************************************************************)
C1_QuotaInvariant ==
    /\ InPass => Len(processed_files) <= QuotaOf(PassOrder[pass].set_type)
    /\ \A r \in 1..run : \A p \in 1..NumPasses :
          Len(WritesOf(r, p)) <= QuotaOf(PassOrder[p].set_type)
    /\ \A key \in DOMAIN dataset_splits :
          Len(dataset_splits[key]) <= QuotaOf(key[2])

\* A file with a segment left over when the quota has just been filled.
C1_Witness ==
    /\ pc = "segments"
    /\ segment_index < Len(file_segments)
    /\ Len(processed_files) = QuotaOf(PassOrder[pass].set_type)
    /\ Len(WritesOf(run, pass)) = QuotaOf(PassOrder[pass].set_type)

(***************************************************************************)
(* C2.  Within one pass the k-th output written (k from 0, counted over    *)
(* all the files of the pass) is '{domain}_{k:04d}.wav': the names of the  *)
(* bucket are pairwise distinct, are the indices 0..n-1 without a gap, and *)
(* the index is not reset between source files.                             *)
(***************************************************************************)
C2_ContiguousNames ==
    /\ InPass =>
          /\ \A k \in 1..Len(processed_files) :
                processed_files[k] =
                    ExpectedOutput(PassOrder[pass].set_type, PassOrder[pass].domain, k - 1)
          /\ \A j, k \in 1..Len(processed_files) :
                processed_files[j] = processed_files[k] => j = k
          /\ Paths(WritesOf(run, pass)) = processed_files
    /\ \A key \in DOMAIN dataset_splits :
          \A k \in 1..Len(dataset_splits[key]) :
             dataset_splits[key][k] = ExpectedOutput(key[2], key[1], k - 1)

\* Two source files have contributed to the same bucket.
C2_Witness ==
    /\ InPass
    /\ Len(processed_files) >= 2
    /\ \E j, k \in 1..Len(WritesOf(run, pass)) :
          WritesOf(run, pass)[j].source # WritesOf(run, pass)[k].source

Settled(b) == b \in previously_processed_files \/ b \in DOMAIN self_processed_files

(***************************************************************************)
(* C3.  Idempotence of resumption: on a later pass over the same file list *)
(* no candidate whose basename is in the previously-processed set or has a *)
(* Processed-File Record is loaded again, and no output is written from    *)
(* such a candidate.                                                        *)
(***************************************************************************)
C3_NoReload ==
    [][/\ loads' # loads => ~Settled(Basename(LastOf(loads').file))
       /\ writes' # writes => ~Settled(Basename(LastOf(writes').source))]_vars

\* The evaluation pass has gone past a file the calibration pass recorded with
\* output, without loading anything.
C3_Witness ==
    /\ pc = "for"
    /\ IsEvaluation(pass)
    /\ file_index = 2
    /\ LET b == Basename(files[PassOrder[pass].domain][1])
       IN  /\ b \in DOMAIN self_processed_files
           /\ self_processed_files[b].processed_filenames # <<>>
    /\ processed_files = <<>>
    /\ LoadsOf(run, pass) = <<>>

NextCandidateAtQuota ==
    /\ pc = "for"
    /\ file_index <= Len(files[PassOrder[pass].domain])
    /\ Basename(files[PassOrder[pass].domain][file_index])
          \notin previously_processed_files
    /\ Basename(files[PassOrder[pass].domain][file_index])
          \notin DOMAIN self_processed_files
    /\ Len(processed_files) = QuotaOf(PassOrder[pass].set_type)

(***************************************************************************)
(* C5 (as claimed).  When the quota of a pass has been reached exactly by  *)
(* the outputs of earlier files, the next candidate (not previously         *)
(* processed, no record yet) is still loaded and segmented.                 *)
(***************************************************************************)
C5_LoadedAtQuota ==
    [][NextCandidateAtQuota =>
          /\ loads' # loads
          /\ LastOf(loads').file = files[PassOrder[pass].domain][file_index]]_vars

(***************************************************************************)
(* C5 (amended).  When the quota of a pass has been reached exactly by the *)
(* outputs of earlier files, the next candidate (not previously processed, *)
(* no record yet) is not loaded and gets no record: the loop stops there    *)
(* and the pass returns what it has written.                                *)
(***************************************************************************)
C5_StopsAtQuota ==
    [][NextCandidateAtQuota =>
          /\ loads' = loads
          /\ writes' = writes
          /\ disk' = disk
          /\ self_processed_files' = self_processed_files
          /\ <<PassOrder[pass].domain, PassOrder[pass].set_type>>
                \in DOMAIN dataset_splits'
          /\ dataset_splits'[<<PassOrder[pass].domain, PassOrder[pass].set_type>>]
                = processed_files
          /\ (pass' = pass + 1 \/ pc' = "save")]_vars

\* Calibration quota 2, three music files of one segment each: the pass has
\* returned music_0000.wav and music_0001.wav, the third file was not loaded
\* and has no record.
C5_Witness ==
    /\ run = 1
    /\ calibration_samples = 2
    /\ pass = 3
    /\ Len(files["music"]) = 3
    /\ \A j, k \in 1..3 :
          Basename(files["music"][j]) = Basename(files["music"][k]) => j = k
    /\ \A k \in 1..3 :
          /\ ~load_audio_file(files["music"][k], target_sr).raised
          /\ Len(load_and_process_audio(
                     load_audio_file(files["music"][k], target_sr).result,
                     target_samples, gap_samples)) = 1
    /\ <<"music", "calibration">> \in DOMAIN dataset_splits
    /\ dataset_splits[<<"music", "calibration">>] =
          <<ExpectedOutput("calibration", "music", 0),
            ExpectedOutput("calibration", "music", 1)>>
    /\ \A k \in 1..2 :
          /\ Basename(files["music"][k]) \in DOMAIN self_processed_files
          /\ self_processed_files[Basename(files["music"][k])].full_path
                = files["music"][k]
    /\ Basename(files["music"][3]) \notin DOMAIN self_processed_files
    /\ \A i \in DOMAIN loads : loads[i].file # files["music"][3]

\* The loads of this run that the record of basename b can stem from: the
\* clock has not ticked between the load and the record.
LoadIndices(b) ==
    {i \in DOMAIN loads :
        /\ loads[i].run = run
        /\ Basename(loads[i].file) = b
        /\ b \in DOMAIN self_processed_files
        /\ loads[i].time = self_processed_files[b].processed_datetime}

\* The pass of this run in which the record of basename b was created.
RecordPass(b) ==
    loads[CHOOSE i \in LoadIndices(b) : \A j \in LoadIndices(b) : j <= i].pass

RecordedInCalibration(b) ==
    /\ b \in DOMAIN self_processed_files
    /\ LoadIndices(b) # {}
    /\ ~IsEvaluation(RecordPass(b))

EvaluationMeetsCalibrated ==
    /\ pc = "for"
    /\ IsEvaluation(pass)
    /\ file_index <= Len(files[PassOrder[pass].domain])
    /\ Basename(files[PassOrder[pass].domain][file_index])
          \notin previously_processed_files
    /\ Len(processed_files) < QuotaOf("evaluation")
    /\ RecordedInCalibration(Basename(files[PassOrder[pass].domain][file_index]))

(***************************************************************************)
(* C6 (as claimed).  Nothing removes the files processed in the            *)
(* calibration pass from the evaluation pass: a candidate of an evaluation *)
(* pass that the calibration pass of the same run has recorded is loaded   *)
(* again when the evaluation quota is not yet met.                          *)
(***************************************************************************)
C6_CalibratedFilesReloaded ==
    [][EvaluationMeetsCalibrated => loads' # loads]_vars

(***************************************************************************)
(* C6 (amended).  Within one run a source file that a calibration pass has *)
(* given a Processed-File Record contributes no output to an evaluation    *)
(* bucket: the evaluation pass skips it because its basename is in the     *)
(* run's record map.                                                        *)
(***************************************************************************)
C6_CalibratedFilesStayOut ==
    \A b \in DOMAIN self_processed_files :
        RecordedInCalibration(b) =>
            \A i \in DOMAIN writes :
                (writes[i].run = run /\ IsEvaluation(writes[i].pass))
                    => Basename(writes[i].source) # b

\* The evaluation pass of a domain has returned nothing although the only
\* file of the domain has segments: the calibration pass had recorded it.
C6_Witness ==
    \E p \in 1..NumPasses :
        /\ IsEvaluation(p)
        /\ p < pass
        /\ Len(files[PassOrder[p].domain]) = 1
        /\ LET f == files[PassOrder[p].domain][1]
           IN  /\ RecordedInCalibration(Basename(f))
               /\ self_processed_files[Basename(f)].full_path = f
               /\ self_processed_files[Basename(f)].processed_filenames # <<>>
        /\ dataset_splits[<<PassOrder[p].domain, "evaluation">>] = <<>>
        /\ run = 1

(***************************************************************************)
(* C7.  Short-clip path: for a buffer shorter than target_samples the      *)
(* result is exactly one segment, the whole buffer as loaded, when its RMS *)
(* is at least 0.01, and the empty list otherwise; no window is taken.      *)
(***************************************************************************)
C7_ShortClip ==
    (~seg_loaded.none /\ Len(seg_loaded.audio.num) < target_samples) =>
        /\ attempts = <<>>
        /\ seg_pc # "loop"
        /\ seg_pc = "done" =>
              segments = IF RmsAtLeastFloor(seg_loaded.audio)
                         THEN <<[data |-> seg_loaded.audio, sr |-> target_sr]>>
                         ELSE <<>>

\* A kept short clip of two samples, one of them below the floor on its own.
C7_Witness ==
    /\ seg_pc = "done"
    /\ ~seg_loaded.none
    /\ seg_loaded.audio.num = <<1, 4>>
    /\ target_samples = 3
    /\ Len(segments) = 1

AttemptedWindows ==
    [k \in 1..Len(attempts) |->
        [data |-> [den |-> audio.den,
                   num |-> SubSeq(audio.num, attempts[k] + 1,
                                  attempts[k] + target_samples)],
         sr |-> target_sr]]

(***************************************************************************)
(* C8.  Windowed path: for a buffer of length L >= target_samples (with    *)
(* target_samples + gap_samples > 0) the windows attempted start at         *)
(* k * (target_samples + gap_samples), k = 0, 1, ..., while the window fits;*)
(* there are floor((L - target_samples) / (target_samples + gap_samples))  *)
(* + 1 attempts, each of length target_samples; a rejected window advances *)
(* the offset like a kept one; the kept segments are a subsequence of the  *)
(* attempts.  L = 1102500, target_samples = 441000, gap_samples = 88200:   *)
(* two attempts, at 0 and 529200.                                           *)
(***************************************************************************)
C8_WindowedPath ==
    /\ (/\ ~seg_loaded.none
        /\ Len(seg_loaded.audio.num) >= target_samples
        /\ target_samples + gap_samples > 0) =>
          LET L == Len(seg_loaded.audio.num)
              step == target_samples + gap_samples
          IN  /\ \A k \in 1..Len(attempts) :
                    /\ attempts[k] = (k - 1) * step
                    /\ attempts[k] + target_samples <= L
                    /\ Len(AttemptedWindows[k].data.num) = target_samples
              /\ seg_pc = "loop" => current_pos = Len(attempts) * step
              /\ seg_pc = "done" =>
                    /\ Len(attempts) = ((L - target_samples) \div step) + 1
                    /\ attempts = WindowOffsets(0, L, target_samples, gap_samples)
              /\ \A j \in 1..Len(segments) :
                    Len(segments[j].data.num) = target_samples
              /\ IsSubsequence(segments, AttemptedWindows)
    /\ WindowOffsets(0, 1102500, IntOfProduct(44100, 20), IntOfProduct(44100, 4))
          = <<0, 529200>>
    /\ IntOfProduct(44100, 20) = 441000 /\ IntOfProduct(44100, 4) = 88200

\* Two attempts a gap apart, the first rejected and the second kept.
C8_Witness ==
    /\ seg_pc = "done"
    /\ gap_samples > 0
    /\ Len(attempts) = 2
    /\ Len(segments) = 1
    /\ segments[1] = AttemptedWindows[2]
    /\ segments[1] # AttemptedWindows[1]

(***************************************************************************)
(* C9.  No-audio outcome: when the loader returns (None, 0) for a          *)
(* candidate the pass has reached, nothing is raised, no segment is made,  *)
(* no output is written for the file, and the file gets a Processed-File   *)
(* Record with an empty output list.                                        *)
(***************************************************************************)
C9_NoAudioRecorded ==
    \A i \in DOMAIN loads :
        (loads[i].run = run /\ IsVideoWithoutAudio(loads[i].file)) =>
            /\ \A j \in DOMAIN writes : writes[j].source # loads[i].file
            /\ IF pc = "segments" /\ i = Len(loads)
               THEN file_segments = <<>> /\ processed_filenames_for_file = <<>>
               ELSE /\ Basename(loads[i].file) \in DOMAIN self_processed_files
                    /\ self_processed_files[Basename(loads[i].file)].full_path
                          = loads[i].file
                    /\ self_processed_files[Basename(loads[i].file)]
                          .processed_filenames = <<>>

C9_Witness ==
    \E b \in DOMAIN self_processed_files :
        /\ IsVideoWithoutAudio(self_processed_files[b].full_path)
        /\ self_processed_files[b].processed_filenames = <<>>
        /\ \E i \in DOMAIN loads :
              loads[i].run = run /\ loads[i].file = self_processed_files[b].full_path

AllKeys ==
    {<<d, st>> : d \in {"speech", "music", "environmental"},
                 st \in {"calibration", "evaluation"}}

PassOfKey(key) ==
    CHOOSE p \in 1..NumPasses :
        PassOrder[p].domain = key[1] /\ PassOrder[p].set_type = key[2]

(***************************************************************************)
(* C10.  The manifest create_dataset_splits returns has exactly the six    *)
(* keys '{domain}_{split}'; the value of a key is the sequence of the       *)
(* output paths written by that pass of the current run, in write order,   *)
(* and holds no path that was not written in this run.                      *)
(***************************************************************************)
C10_Manifest ==
    /\ pc \in {"save", "exit"} => DOMAIN dataset_splits = AllKeys
    /\ \A key \in DOMAIN dataset_splits :
          /\ key \in AllKeys
          /\ dataset_splits[key] = Paths(WritesOf(run, PassOfKey(key)))
          /\ \A k \in 1..Len(dataset_splits[key]) :
                \E i \in DOMAIN writes :
                    writes[i].run = run /\ writes[i].path = dataset_splits[key][k]

\* The manifest of a second run, with a path the first run had written too.
C10_Witness ==
    /\ pc = "save"
    /\ run = 2
    /\ \E key \in DOMAIN dataset_splits :
          /\ Len(dataset_splits[key]) >= 1
          /\ \E i \in DOMAIN writes :
                writes[i].run = 1 /\ writes[i].path = dataset_splits[key][1]
    /\ \E key \in DOMAIN dataset_splits : dataset_splits[key] = <<>>

\* The passes of create_dataset_splits in the order the specification gives.
SixPasses ==
    <<<<"speech", "calibration">>, <<"music", "calibration">>,
      <<"environmental", "calibration">>, <<"speech", "evaluation">>,
      <<"music", "evaluation">>, <<"environmental", "evaluation">>>>

CalibrationKeys ==
    {<<"speech", "calibration">>, <<"music", "calibration">>,
     <<"environmental", "calibration">>}

\* The (domain, split) the running pass writes to, read off its output
\* directory and file names.
WrittenBucket(w) == <<w.path.file.domain, w.path.dir[1]>>

(***************************************************************************)
(* C11.  Pass ordering: the six passes run one after another in the order  *)
(* (speech, calibration), (music, calibration), (environmental,             *)
(* calibration), (speech, evaluation), (music, evaluation), (environmental, *)
(* evaluation): the manifest holds the buckets of exactly the passes before *)
(* the running one, every write goes to the bucket of the running pass, and *)
(* no write or record of an evaluation pass happens before the three        *)
(* calibration buckets have been returned.                                   *)
(***************************************************************************)
C11_PassOrdering ==
    [][/\ pc' \in {"for", "segments"} =>
             /\ pass' \in 1..6
             /\ DOMAIN dataset_splits' = {SixPasses[k] : k \in 1..(pass' - 1)}
       /\ pass' # pass => (pass' = pass + 1 \/ (run' = run + 1 /\ pass' = 1))
       /\ writes' # writes =>
             /\ LastOf(writes').pass = pass
             /\ WrittenBucket(LastOf(writes')) = SixPasses[pass]
             /\ SixPasses[pass][2] = "evaluation" =>
                   CalibrationKeys \subseteq DOMAIN dataset_splits
       /\ (run' = run /\ self_processed_files' # self_processed_files
              /\ CalibrationKeys \ DOMAIN dataset_splits # {}) =>
             \E b \in DOMAIN self_processed_files' :
                /\ b \notin DOMAIN self_processed_files
                /\ self_processed_files'[b].full_path.dir
                      = SixPasses[Cardinality(DOMAIN dataset_splits) + 1][1]
                /\ SixPasses[Cardinality(DOMAIN dataset_splits) + 1][2]
                      = "calibration"]_vars

\* The music evaluation pass has written a file after the music calibration
\* pass had written one.
C11_Witness ==
    /\ pass = 5
    /\ pc = "for"
    /\ Len(WritesOf(run, 5)) >= 1
    /\ Len(WritesOf(run, 2)) >= 1
    /\ WrittenBucket(WritesOf(run, 5)[1]) = <<"music", "evaluation">>
    /\ WrittenBucket(WritesOf(run, 2)[1]) = <<"music", "calibration">>

\* The loop over the candidates is at a candidate with the quota reached.
CandidateWithQuotaReached ==
    /\ pc = "for"
    /\ file_index <= Len(files[PassOrder[pass].domain])
    /\ Len(processed_files) >= QuotaOf(PassOrder[pass].set_type)

(***************************************************************************)
(* C12.  Once the output count of a pass has reached the quota no further  *)
(* candidate of the pass is loaded, segmented, written or recorded: a       *)
(* candidate in the previously-processed set is passed over, and at the     *)
(* first candidate that is not in it the loop stops and the pass returns    *)
(* its output list.                                                          *)
(***************************************************************************)
C12_NothingAfterQuota ==
    [][CandidateWithQuotaReached =>
          /\ loads' = loads
          /\ writes' = writes
          /\ disk' = disk
          /\ self_processed_files' = self_processed_files
          /\ IF Basename(files[PassOrder[pass].domain][file_index])
                   \in previously_processed_files
             THEN /\ pass' = pass
                  /\ pc' = "for"
                  /\ file_index' = file_index + 1
                  /\ processed_files' = processed_files
                  /\ dataset_splits' = dataset_splits
             ELSE /\ <<PassOrder[pass].domain, PassOrder[pass].set_type>>
                        \in DOMAIN dataset_splits'
                  /\ dataset_splits'[<<PassOrder[pass].domain,
                                       PassOrder[pass].set_type>>] = processed_files
                  /\ (pass' = pass + 1 \/ pc' = "save")]_vars

\* A second run has filled a quota from an earlier candidate and has then
\* passed over a candidate of the previously-processed set.
C12_Witness ==
    /\ run = 2
    /\ pc = "for"
    /\ file_index >= 3
    /\ file_index - 1 <= Len(files[PassOrder[pass].domain])
    /\ Len(processed_files) = QuotaOf(PassOrder[pass].set_type)
    /\ WritesOf(run, pass) # <<>>
    /\ \E k \in 1..(file_index - 2) :
          LastOf(WritesOf(run, pass)).source = files[PassOrder[pass].domain][k]
    /\ Basename(files[PassOrder[pass].domain][file_index - 1])
          \in previously_processed_files
    /\ LoadsOf(run, pass) # <<>>
    /\ LastOf(LoadsOf(run, pass)).file = LastOf(WritesOf(run, pass)).source

(***************************************************************************)
(* C13.  Processed-File Records are write-once within a run: a step of the *)
(* run creates at most one record, only for a basename that has none, and  *)
(* every record that exists keeps its full path, timestamp and output list. *)
(***************************************************************************)
C13_WriteOnce ==
    [][run' = run =>
          /\ \A b \in DOMAIN self_processed_files :
                /\ b \in DOMAIN self_processed_files'
                /\ self_processed_files'[b] = self_processed_files[b]
          /\ Cardinality(DOMAIN self_processed_files' \ DOMAIN self_processed_files)
                <= 1]_vars

\* A second file with the basename of a recorded file has been passed by a
\* later pass of the run; the record is still the first file's.
C13_Witness ==
    /\ pc = "for"
    /\ file_index >= 2
    /\ LET f == files[PassOrder[pass].domain][file_index - 1]
       IN  /\ Basename(f) \in DOMAIN self_processed_files
           /\ self_processed_files[Basename(f)].full_path # f
           /\ self_processed_files[Basename(f)].processed_filenames # <<>>
           /\ \A i \in DOMAIN loads : loads[i].file # f
    /\ Len(processed_files) < QuotaOf(PassOrder[pass].set_type)

\* The segments the Segmenter makes of source file f.
SegmentsOfFile(f) ==
    IF load_audio_file(f, target_sr).raised THEN <<>>
    ELSE load_and_process_audio(load_audio_file(f, target_sr).result,
                                target_samples, gap_samples)

Smaller(a, b) == IF a < b THEN a ELSE b

\* The record of basename b is created by this step.
RecordCreated(b) ==
    /\ run' = run
    /\ b \notin DOMAIN self_processed_files
    /\ b \in DOMAIN self_processed_files'

\* The basenames with an entry in the record map or in the ledger.
KnownBasenames ==
    DOMAIN self_processed_files \cup DOMAIN sources_processed_files

(***************************************************************************)
(* C14.  Quota reached mid-file: when a file is recorded, with n the       *)
(* number of outputs of the pass before the file, exactly the first         *)
(* min(#segments, quota - n) segments of the file have been written, in     *)
(* segment order, to the next output names; the record's output list is     *)
(* exactly those names; and no file whose basename is recorded, in this run *)
(* or in the ledger, is loaded or written again, in this or a later run.    *)
(***************************************************************************)
C14_QuotaMidFile ==
    [][/\ \A b \in DOMAIN self_processed_files' :
             RecordCreated(b) =>
                LET rec == self_processed_files'[b]
                    segs == SegmentsOfFile(rec.full_path)
                    names == rec.processed_filenames
                    n == Len(processed_files) - Len(names)
                    st == PassOrder[pass].set_type
                IN  /\ n >= 0
                    /\ Len(names) = Smaller(Len(segs), QuotaOf(st) - n)
                    /\ \A j \in 1..Len(names) :
                          /\ processed_files[n + j].file = names[j]
                          /\ names[j] = ExpectedOutput(st, PassOrder[pass].domain,
                                                       n + j - 1).file
                          /\ disk[processed_files[n + j]].segment = segs[j]
                          /\ disk[processed_files[n + j]].source = rec.full_path
                    /\ Len(WritesOf(run, pass)) = n + Len(names)
                    /\ \A j \in 1..Len(names) :
                          /\ WritesOf(run, pass)[n + j].source = rec.full_path
                          /\ WritesOf(run, pass)[n + j].path = processed_files[n + j]
       /\ loads' # loads =>
             Basename(LastOf(loads').file) \notin KnownBasenames
       /\ writes' # writes =>
             Basename(LastOf(writes').source) \notin KnownBasenames]_vars

\* A file of two segments was recorded with one output in the first run, and
\* the second run has ended without another write from it.
C14_Witness ==
    /\ run = 2
    /\ pc = "save"
    /\ \E b \in DOMAIN sources_processed_files :
          LET rec == sources_processed_files[b]
          IN  /\ Len(SegmentsOfFile(rec.full_path)) = 2
              /\ Len(rec.processed_filenames) = 1
              /\ Cardinality({i \in DOMAIN writes :
                                 writes[i].source = rec.full_path}) = 1
              /\ \E k \in 1..Len(files[rec.full_path.dir]) :
                    files[rec.full_path.dir][k] = rec.full_path

\* The candidate the loop is at is one the pass skips.
CandidateSettled ==
    /\ pc = "for"
    /\ file_index <= Len(files[PassOrder[pass].domain])
    /\ Settled(Basename(files[PassOrder[pass].domain][file_index]))

\* The output list of the running pass after a step: the local list, or the
\* bucket the pass has returned.
OutputListAfterStep ==
    IF pass' = pass THEN processed_files'
    ELSE dataset_splits'[<<PassOrder[pass].domain, PassOrder[pass].set_type>>]

(***************************************************************************)
(* C15.  Skipping has no side effect: at a candidate whose basename is in  *)
(* the previously-processed set or has a record in the run's map, the step *)
(* leaves the record map, the output list of the pass (and so the running  *)
(* filename index) and the files on disk unchanged and loads nothing; and   *)
(* no step of a run changes the previously-processed set.                   *)
(***************************************************************************)
C15_SkipHasNoEffect ==
    [][/\ CandidateSettled =>
             /\ self_processed_files' = self_processed_files
             /\ OutputListAfterStep = processed_files
             /\ Len(OutputListAfterStep) = Len(processed_files)
             /\ disk' = disk
             /\ loads' = loads
             /\ writes' = writes
             /\ sources_processed_files' = sources_processed_files
       /\ run' = run =>
             previously_processed_files' = previously_processed_files]_vars

\* In a second run a pass has gone past a previously-processed candidate and
\* then past a candidate recorded earlier in the run, with nothing loaded.
C15_Witness ==
    /\ run = 2
    /\ pc = "for"
    /\ file_index = 3
    /\ Basename(files[PassOrder[pass].domain][1]) \in previously_processed_files
    /\ Basename(files[PassOrder[pass].domain][2]) \notin previously_processed_files
    /\ Basename(files[PassOrder[pass].domain][2]) \in DOMAIN self_processed_files
    /\ processed_files = <<>>
    /\ LoadsOf(run, pass) = <<>>

(***************************************************************************)
(* C16.  Repeated runs preserve earlier outputs: a later run, started with *)
(* the earlier runs' records in the previously-processed set and the same  *)
(* output root, never writes to an output path an earlier run wrote, so    *)
(* that all the writes to one output path are segments of one source file. *)
(***************************************************************************)
C16_RunsPreserveOutputs ==
    \A i, j \in DOMAIN writes :
        writes[i].path = writes[j].path =>
            /\ writes[i].run = writes[j].run
            /\ writes[i].source = writes[j].source

\* With no call of sf.write having raised, the second run has replaced an
\* output of the first run: the ledger's
\* record of one source file names an output that now holds a segment of
\* another source file.
C16_Witness ==
    /\ run = 2
    /\ write_errors = 0
    /\ \E b \in previously_processed_files :
          /\ b \in DOMAIN sources_processed_files
          /\ \E k \in 1..Len(sources_processed_files[b].processed_filenames) :
                \E path \in DOMAIN disk :
                   /\ path.file = sources_processed_files[b].processed_filenames[k]
                   /\ path.dir[2] = sources_processed_files[b].full_path.dir
                   /\ disk[path].run = 2
                   /\ disk[path].source # sources_processed_files[b].full_path
                   /\ \E i \in DOMAIN writes :
                         /\ writes[i].run = 1
                         /\ writes[i].path = path
                         /\ writes[i].source = sources_processed_files[b].full_path

\* The records of this run created in pass p.
RecordsOfPass(p) ==
    {b \in DOMAIN self_processed_files : LoadIndices(b) # {} /\ RecordPass(b) = p}

NamesOf(b) ==
    {self_processed_files[b].processed_filenames[k] :
        k \in 1..Len(self_processed_files[b].processed_filenames)}

(***************************************************************************)
(* C17.  Manifest and records agree: for every bucket a pass has returned, *)
(* also a pass in which loading, segmenting or writing raised for some     *)
(* file, every output path of the bucket has its filename in the output    *)
(* list of exactly one record created in that pass, and every filename in  *)
(* the output list of such a record is in the bucket.                       *)
(***************************************************************************)
C17_ManifestMatchesRecords ==
    \A key \in DOMAIN dataset_splits :
        /\ \A k \in 1..Len(dataset_splits[key]) :
              Cardinality({b \in RecordsOfPass(PassOfKey(key)) :
                              dataset_splits[key][k].file \in NamesOf(b)}) = 1
        /\ \A b \in RecordsOfPass(PassOfKey(key)) :
              \A name \in NamesOf(b) :
                 \E k \in 1..Len(dataset_splits[key]) :
                    dataset_splits[key][k].file = name

\* A pass has returned a bucket holding an output of a file whose second
\* write raised: the output is on disk and in the manifest, and no record of
\* the run names it.
C17_Witness ==
    \E key \in DOMAIN dataset_splits :
        \E k \in 1..Len(dataset_splits[key]) :
           /\ dataset_splits[key][k] \in DOMAIN disk
           /\ disk[dataset_splits[key][k]].run = run
           /\ write_errors >= 1
           /\ Len(SegmentsOfFile(disk[dataset_splits[key][k]].source)) = 2
           /\ \A b \in RecordsOfPass(PassOfKey(key)) :
                 dataset_splits[key][k].file \notin NamesOf(b)

\* The loop is at a candidate the pass would process but for a record made
\* for a file of another domain with the same basename.
CandidateNamedLikeOtherDomains ==
    /\ pc = "for"
    /\ file_index <= Len(files[PassOrder[pass].domain])
    /\ Len(processed_files) < QuotaOf(PassOrder[pass].set_type)
    /\ LET f == files[PassOrder[pass].domain][file_index]
       IN  /\ Basename(f) \notin previously_processed_files
           /\ Basename(f) \in DOMAIN self_processed_files
           /\ self_processed_files[Basename(f)].full_path.dir # f.dir
           /\ f.dir = PassOrder[pass].domain

(***************************************************************************)
(* C18.  Domains do not interfere: a candidate of one domain is not        *)
(* skipped because a file with the same basename and a different path got  *)
(* a record while another domain was processed in the same run: the pass    *)
(* loads it.                                                                 *)
(***************************************************************************)
C18_DomainsIndependent ==
    [][CandidateNamedLikeOtherDomains =>
          /\ loads' # loads
          /\ LastOf(loads').file = files[PassOrder[pass].domain][file_index]]_vars

\* The music passes of a run have both returned nothing although music/a.wav
\* holds a segment: speech/a.wav had been recorded under the same basename.
C18_Witness ==
    /\ pass = 6
    /\ run = 1
    /\ Len(files["music"]) = 1
    /\ files["music"][1].dir = "music"
    /\ Len(SegmentsOfFile(files["music"][1])) >= 1
    /\ dataset_splits[<<"music", "calibration">>] = <<>>
    /\ dataset_splits[<<"music", "evaluation">>] = <<>>
    /\ Basename(files["music"][1]) \in DOMAIN self_processed_files
    /\ self_processed_files[Basename(files["music"][1])].full_path.dir = "speech"
    /\ \A i \in DOMAIN loads : loads[i].file # files["music"][1]

\* A run of main() has reached its end, or the call of the Segmenter has
\* returned.
Ended == pc = "exit" \/ seg_pc = "done"

(***************************************************************************)
(* C19.  Termination: with target_samples + gap_samples > 0 every call of  *)
(* the Segmenter returns, the window offset growing at every iteration of   *)
(* its loop, kept or rejected; every run of create_dataset_splits and       *)
(* main(), and so each of its passes, which run one after another, reaches  *)
(* its end, the loop over the candidates only ever moving to the next       *)
(* candidate of the list.                                                    *)
(***************************************************************************)
C19_Termination ==
    /\ []<>Ended
    /\ [][attempts' # attempts =>
             /\ target_samples + gap_samples > 0
             /\ current_pos' > current_pos
             /\ Len(attempts') = Len(attempts) + 1
             /\ current_pos + target_samples <= Len(audio.num)]_vars
    /\ [][(InPass /\ pass' = pass /\ file_index' # file_index) =>
             /\ file_index' = file_index + 1
             /\ file_index <= Len(files[PassOrder[pass].domain])]_vars

\* A call of the Segmenter has returned after three iterations of its loop.
C19_Witness ==
    /\ seg_pc = "done"
    /\ Len(attempts) = 3
    /\ current_pos > Len(audio.num) - target_samples

====
